---------------------------- MODULE Spec2Model ----------------------------
(***************************************************************************)
(* Model of NeuroKit_mice's respiration extrema detection                  *)
(* (neurokit2/rsp/rsp_findpeaks.py) and of the multi-signal wrapper        *)
(* (neurokit2/bio/bio_process.py).                                         *)
(*                                                                         *)
(* Conventions.  A signal (numpy array) is a TLA+ sequence of integers;    *)
(* sample indices are 0-based as in the source, so sample i of s is        *)
(* s[i + 1] (operator At).  outlier_threshold is a rational <<num, den>>   *)
(* with den > 0; the thresholds used are exactly representable in binary   *)
(* floating point or integers, so the source's float comparison and the    *)
(* model's exact one agree.  NaN is the string "nan", and the values 0.0   *)
(* and 1.0 of the inspiration series are the strings "0.0" and "1.0".      *)
(* A raised exception ends the call: pc = "error" and err names the        *)
(* exception class.                                                        *)
(***************************************************************************)
EXTENDS Integers, Sequences, FiniteSets, TLC

VARIABLES
    pc,                 \* position in rsp_findpeaks
    rsp_cleaned,        \* argument of rsp_findpeaks: an array or a table
    method,             \* argument; reassigned by method.lower()
    outlier_threshold,  \* argument of rsp_findpeaks
    cleaned,            \* np.array(rsp_cleaned)
    threshold,          \* outlier_threshold as received by _rsp_findpeaks_khodadad
    extrema,            \* local of _rsp_findpeaks_khodadad
    amplitudes,         \* local of _rsp_findpeaks_khodadad
    info,               \* {"RSP_Peaks": peaks, "RSP_Troughs": troughs}
    signals,            \* the returned table, one sequence per column
    err,                \* the exception that ended the call, or "none"
    bio_pc,             \* position in bio_process
    ecg, rsp, eda, emg, keep,   \* arguments / locals of bio_process
    outs,               \* what each per-channel pipeline returned
    bio_df,             \* columns of the merged table, in order
    bio_info,           \* merged info mapping
    bio_err             \* the exception that ended bio_process, or "none"

rspvars == <<pc, rsp_cleaned, method, outlier_threshold, cleaned, threshold,
             extrema, amplitudes, info, signals, err>>
biovars == <<bio_pc, ecg, rsp, eda, emg, keep, outs, bio_df, bio_info, bio_err>>
vars == <<rspvars, biovars>>

---------------------------------------------------------------------------
(* Bounds of the model. *)

\* longest signal handed to rsp_findpeaks in Spec
MaxLen == 7
\* sample values of the signals in Spec
Amplitudes == {-1, 0, 1}
\* longest column of a table handed to rsp_findpeaks
TableLen == 1
\* length of the signals of SpecDeep
DeepLen == 9
\* sample values of the signals of SpecDeep
DeepAmplitudes == {-2, -1, 2}
\* most columns of a table handed to bio_process as its first argument
MaxCols == 2

Thresholds == {<<0, 1>>, <<1, 2>>, <<1, 1>>, <<5, 1>>}

---------------------------------------------------------------------------
(* Sequence helpers standing for numpy / Python primitives. *)

At(s, i) == s[i + 1]

Range(s) == {s[i] : i \in 1..Len(s)}

Abs(x) == IF x < 0 THEN -x ELSE x

Sign(x) == IF x > 0 THEN 1 ELSE IF x < 0 THEN -1 ELSE 0

RECURSIVE SumSeq(_)
SumSeq(s) == IF Len(s) = 0 THEN 0 ELSE s[1] + SumSeq(Tail(s))

SetMin(S) == CHOOSE x \in S : \A y \in S : x <= y

\* the elements of a finite set of integers, ascending
RECURSIVE SortedSeq(_)
SortedSeq(S) == IF S = {} THEN <<>>
                ELSE <<SetMin(S)>> \o SortedSeq(S \ {SetMin(S)})

\* np.where(mask)[0] for a mask given as the set of 0-based positions it holds at
Where(S) == SortedSeq(S)

\* ndarray.sort(kind="mergesort") of an integer array
RECURSIVE Sort(_)
Sort(s) ==
    IF Len(s) = 0 THEN <<>>
    ELSE LET m == SetMin(Range(s))
             k == CHOOSE i \in 1..Len(s) : s[i] = m /\ \A j \in 1..(i - 1) : s[j] # m
         IN <<m>> \o Sort(SubSeq(s, 1, k - 1) \o SubSeq(s, k + 1, Len(s)))

\* a[idx] for an index array idx (0-based positions)
Take(a, idx) == [k \in 1..Len(idx) |-> At(a, idx[k])]

\* np.delete(a, rm) for a set rm of 0-based positions
Delete(a, rm) == Take(a, SortedSeq((0..(Len(a) - 1)) \ rm))

\* a[beg:end]
Slice(a, beg, end) == SubSeq(a, beg + 1, end)

\* np.argmax / np.argmin: 0-based offset of the first occurrence of the extreme
ArgMax(seg) == CHOOSE i \in 0..(Len(seg) - 1) :
                  /\ \A j \in 0..(Len(seg) - 1) : At(seg, j) <= At(seg, i)
                  /\ \A j \in 0..(i - 1) : At(seg, j) < At(seg, i)

ArgMin(seg) == CHOOSE i \in 0..(Len(seg) - 1) :
                  /\ \A j \in 0..(Len(seg) - 1) : At(seg, j) >= At(seg, i)
                  /\ \A j \in 0..(i - 1) : At(seg, j) > At(seg, i)

---------------------------------------------------------------------------
(* str.lower() on method names; a name is a sequence of characters. *)

LowerLetters == <<"a","b","c","d","e","f","g","h","i","j","k","l","m",
                  "n","o","p","q","r","s","t","u","v","w","x","y","z">>
UpperLetters == <<"A","B","C","D","E","F","G","H","I","J","K","L","M",
                  "N","O","P","Q","R","S","T","U","V","W","X","Y","Z">>

LowerChar(c) == IF \E i \in 1..Len(UpperLetters) : UpperLetters[i] = c
                THEN LowerLetters[CHOOSE i \in 1..Len(UpperLetters) : UpperLetters[i] = c]
                ELSE c

UpperChar(c) == IF \E i \in 1..Len(LowerLetters) : LowerLetters[i] = c
                THEN UpperLetters[CHOOSE i \in 1..Len(LowerLetters) : LowerLetters[i] = c]
                ELSE c

\* faulty variant of lower: the name is compared as given
lower_identity(m) == m

\* method.lower()
lower(m) == [i \in 1..Len(m) |-> LowerChar(m[i])]

upper(m) == [i \in 1..Len(m) |-> UpperChar(m[i])]

capitalize(m) == [i \in 1..Len(m) |-> IF i = 1 THEN UpperChar(m[i]) ELSE m[i]]

khodadad == <<"k","h","o","d","a","d","a","d">>
khodadad2018 == khodadad \o <<"2","0","1","8">>
biosppy == <<"b","i","o","s","p","p","y">>
not_a_method == <<"n","o","t","_","a","_","m","e","t","h","o","d">>

\* the names the dispatch of rsp_findpeaks accepts, and the method each selects
KhodadadNames == {khodadad, khodadad2018}
BiosppyNames == {biosppy}

---------------------------------------------------------------------------
(* rsp_findpeaks: column lookup (lines 59-69). *)

RspColumns == {"RSP_Clean", "RSP_Raw", "RSP"}

\* whether an `except <handler>` clause catches a raised exception class
\* (KeyError and NameError are unrelated classes)
Catches(handler, raised) == handler = raised

\* table[name]: pandas raises KeyError for a column the table does not hold
GetColumn(table, name) ==
    IF name \in DOMAIN table.cols
    THEN [ok |-> TRUE, value |-> table.cols[name], err |-> "none"]
    ELSE [ok |-> FALSE, value |-> <<>>, err |-> "KeyError"]

\* the try/except chain of lines 61-67
column_lookup(table) ==
    LET c == GetColumn(table, "RSP_Clean")
        r == GetColumn(table, "RSP_Raw")
        g == GetColumn(table, "RSP")
    IN IF c.ok THEN c
       ELSE IF ~Catches("NameError", c.err) THEN c
       ELSE IF r.ok THEN r
       ELSE IF ~Catches("NameError", r.err) THEN r
       ELSE g

---------------------------------------------------------------------------
(* _rsp_findpeaks_extrema (lines 138-181). *)

risex(s) == Where({i \in 0..(Len(s) - 2) : At(s, i) < 0 /\ At(s, i + 1) > 0})

fallx(s) == Where({i \in 0..(Len(s) - 2) : At(s, i) > 0 /\ At(s, i + 1) < 0})

\* lines 146-149; evaluated only when both risex and fallx are non-empty
startx(s) == IF risex(s)[1] < fallx(s)[1] THEN "rise" ELSE "fall"

allx(s) == Sort(risex(s) \o fallx(s))

\* lines 160-170: which search the i-th interval gets
argextreme(start, i) ==
    IF start = "rise"
    THEN (IF (i + 1) % 2 # 0 THEN "argmax" ELSE "argmin")
    ELSE (IF (i + 1) % 2 # 0 THEN "argmin" ELSE "argmax")

\* lines 174-178
extreme(s, start, x, i) ==
    LET beg == At(x, i)
        end == At(x, i + 1)
        seg == Slice(s, beg, end)
    IN beg + (IF argextreme(start, i) = "argmax" THEN ArgMax(seg) ELSE ArgMin(seg))

\* risex[0] / fallx[0] on an empty array raise IndexError
rsp_findpeaks_extrema(s) ==
    IF Len(risex(s)) = 0 \/ Len(fallx(s)) = 0
    THEN [ok |-> FALSE, extrema |-> <<>>, err |-> "IndexError"]
    ELSE LET x == allx(s)
             st == startx(s)
         IN [ok |-> TRUE,
             extrema |-> [k \in 1..(Len(x) - 1) |-> extreme(s, st, x, k - 1)],
             err |-> "none"]

---------------------------------------------------------------------------
(* _rsp_findpeaks_outliers (lines 184-204). *)

\* vertical_diff > average_diff * outlier_threshold, with
\* average_diff = total / n and outlier_threshold = thr[1] / thr[2]
Exceeds(d, total, n, thr) == d * n * thr[2] > total * thr[1]

\* lines 189-192: the extrema kept by the threshold on vertical distances
outliers_min_diff(s, ext, thr) ==
    LET amps == Take(s, ext)
        vertical_diff == [k \in 1..(Len(amps) - 1) |-> Abs(amps[k + 1] - amps[k])]
        total == SumSeq(vertical_diff)
        n == Len(vertical_diff)
        min_diff == Where({i \in 0..(n - 1) : Exceeds(At(vertical_diff, i), total, n, thr)})
    IN Take(ext, min_diff)

\* lines 197-204: removal of the extrema that break the alternation
outliers_alternation(s, ext) ==
    LET amps == Take(s, ext)
        signs == [k \in 1..(Len(amps) - 1) |-> Sign(amps[k + 1] - amps[k])]
        extdiffs == [k \in 1..(Len(signs) - 1) |-> signs[k] + signs[k + 1]]
        removeext == {i + 1 : i \in {j \in 0..(Len(extdiffs) - 1) : At(extdiffs, j) # 0}}
    IN [extrema |-> Delete(ext, removeext), amplitudes |-> Delete(amps, removeext)]

---------------------------------------------------------------------------
(* _rsp_findpeaks_sanitize (lines 207-220). *)

\* extrema[1::2]
OddPositions(e) == [k \in 1..(Len(e) \div 2) |-> At(e, 2 * k - 1)]

\* extrema[0:-1:2]
EvenPositionsButLast(e) ==
    [k \in 1..(IF Len(e) = 0 THEN 0 ELSE Len(e) \div 2) |-> At(e, 2 * k - 2)]

\* faulty variant of rsp_findpeaks_sanitize: the two slices are exchanged
sanitize_swapped(ext, amps) ==
    IF Len(amps) < 2
    THEN [ok |-> FALSE, peaks |-> <<>>, troughs |-> <<>>, err |-> "IndexError"]
    ELSE LET e1 == IF At(amps, 0) > At(amps, 1) THEN Delete(ext, {0}) ELSE ext
             e2 == IF At(amps, Len(amps) - 1) < At(amps, Len(amps) - 2)
                   THEN Delete(e1, {Len(e1) - 1}) ELSE e1
         IN [ok |-> TRUE, peaks |-> EvenPositionsButLast(e2), troughs |-> OddPositions(e2),
             err |-> "none"]

\* amplitudes[0], amplitudes[1] raise IndexError on fewer than two amplitudes
rsp_findpeaks_sanitize(ext, amps) ==
    IF Len(amps) < 2
    THEN [ok |-> FALSE, peaks |-> <<>>, troughs |-> <<>>, err |-> "IndexError"]
    ELSE LET e1 == IF At(amps, 0) > At(amps, 1) THEN Delete(ext, {0}) ELSE ext
             e2 == IF At(amps, Len(amps) - 1) < At(amps, Len(amps) - 2)
                   THEN Delete(e1, {Len(e1) - 1}) ELSE e1
         IN [ok |-> TRUE, peaks |-> OddPositions(e2), troughs |-> EvenPositionsButLast(e2),
             err |-> "none"]

---------------------------------------------------------------------------
(* Table construction and _rsp_findpeaks_phase (lines 81-85, 124-132). *)

\* a series of `length` zeros with 1 at each of `indices`
signal_from_indices(indices, length) ==
    [k \in 1..length |-> IF (k - 1) \in Range(indices) THEN 1 ELSE 0]

\* _signals_from_peakinfo(info, peak_indices, length) for the two features of info
signals_from_peakinfo(inf, length) ==
    [RSP_Peaks |-> signal_from_indices(inf.RSP_Peaks, length),
     RSP_Troughs |-> signal_from_indices(inf.RSP_Troughs, length),
     RSP_Inspiration |-> <<>>]

\* lines 125-127
phase_marks(sig) ==
    [k \in 1..Len(sig.RSP_Peaks) |->
        IF sig.RSP_Troughs[k] = 1 THEN "1.0"
        ELSE IF sig.RSP_Peaks[k] = 1 THEN "0.0"
        ELSE "nan"]

\* pd.Series(x).fillna(method="pad"): the last value that is not NaN, at or before i
Pad(x) ==
    [k \in 1..Len(x) |->
        LET known == {j \in 1..k : x[j] # "nan"}
        IN IF known = {} THEN "nan"
           ELSE x[CHOOSE j \in known : \A h \in known : h <= j]]

\* faulty variant of rsp_findpeaks_phase: the forward fill is not cut at the
\* last marked sample
phase_fill_to_end(sig) ==
    LET marks == phase_marks(sig)
        notnan == {i \in 0..(Len(marks) - 1) : At(marks, i) # "nan"}
    IN IF notnan = {}
       THEN [ok |-> FALSE, inspiration |-> <<>>, err |-> "IndexError"]
       ELSE [ok |-> TRUE, inspiration |-> Pad(marks), err |-> "none"]

\* np.where(~np.isnan(inspiration))[0][-1] raises IndexError when nothing is marked
rsp_findpeaks_phase(sig) ==
    LET marks == phase_marks(sig)
        notnan == {i \in 0..(Len(marks) - 1) : At(marks, i) # "nan"}
        last_element == CHOOSE i \in notnan : \A j \in notnan : j <= i
        padded == Pad(marks)
    IN IF notnan = {}
       THEN [ok |-> FALSE, inspiration |-> <<>>, err |-> "IndexError"]
       ELSE [ok |-> TRUE,
             inspiration |-> [k \in 1..Len(marks) |->
                                 IF k - 1 < last_element THEN padded[k] ELSE marks[k]],
             err |-> "none"]

---------------------------------------------------------------------------
(* rsp_findpeaks as a state machine: one step per stage of the call. *)

NoInfo == [RSP_Peaks |-> <<>>, RSP_Troughs |-> <<>>]
NoSignals == [RSP_Peaks |-> <<>>, RSP_Troughs |-> <<>>, RSP_Inspiration |-> <<>>]

Array(s) == [kind |-> "array", data |-> s, cols |-> <<>>]
Table(c) == [kind |-> "table", data |-> <<>>, cols |-> c]

SignalsUpTo(n, amps) == UNION {[1..k -> amps] : k \in 0..n}

MethodNames == {khodadad2018, khodadad, biosppy, not_a_method}
MethodInputs == MethodNames \cup {upper(m) : m \in MethodNames}
                            \cup {capitalize(khodadad2018)}

ArrayInputs == {Array(s) : s \in SignalsUpTo(MaxLen, Amplitudes)}
TableInputs ==
    {Table(c) : c \in UNION {[D -> SignalsUpTo(TableLen, Amplitudes)] : D \in SUBSET RspColumns}}

RspIdle ==
    /\ pc = "idle" /\ rsp_cleaned = Array(<<>>) /\ method = <<>>
    /\ outlier_threshold = <<0, 1>> /\ cleaned = <<>> /\ threshold = <<0, 1>>
    /\ extrema = <<>> /\ amplitudes = <<>> /\ info = NoInfo /\ signals = NoSignals
    /\ err = "none"

\* the state at entry of rsp_findpeaks(rsp_cleaned, method, outlier_threshold)
RspCall(inputs, methods, thresholds) ==
    /\ pc = "lookup"
    /\ rsp_cleaned \in inputs
    /\ method \in methods
    /\ outlier_threshold \in thresholds
    /\ cleaned = <<>> /\ threshold = <<0, 1>>
    /\ extrema = <<>> /\ amplitudes = <<>> /\ info = NoInfo /\ signals = NoSignals
    /\ err = "none"

Raise(e) == pc' = "error" /\ err' = e

\* lines 59-69
Lookup ==
    /\ pc = "lookup"
    /\ UNCHANGED <<rsp_cleaned, method, outlier_threshold, threshold, extrema,
                   amplitudes, info, signals, biovars>>
    /\ IF rsp_cleaned.kind = "table"
       THEN LET c == column_lookup(rsp_cleaned)
            IN IF c.ok
               THEN cleaned' = c.value /\ pc' = "dispatch" /\ err' = err
               ELSE Raise(c.err) /\ cleaned' = cleaned
       ELSE cleaned' = rsp_cleaned.data /\ pc' = "dispatch" /\ err' = err

\* lines 71-79, and _rsp_findpeaks_biosppy (lines 97-98)
Dispatch ==
    /\ pc = "dispatch"
    /\ method' = lower(method)
    /\ UNCHANGED <<rsp_cleaned, outlier_threshold, cleaned, extrema, amplitudes,
                   info, signals, biovars>>
    /\ IF method' \in KhodadadNames
       THEN threshold' = outlier_threshold /\ pc' = "extrema" /\ err' = err
       ELSE IF method' \in BiosppyNames
       THEN threshold' = <<0, 1>> /\ pc' = "extrema" /\ err' = err
       ELSE Raise("ValueError") /\ threshold' = threshold

\* line 104
Extrema ==
    /\ pc = "extrema"
    /\ UNCHANGED <<rsp_cleaned, method, outlier_threshold, cleaned, threshold,
                   amplitudes, info, signals, biovars>>
    /\ LET r == rsp_findpeaks_extrema(cleaned)
       IN IF r.ok
          THEN extrema' = r.extrema /\ pc' = "outliers" /\ err' = err
          ELSE Raise(r.err) /\ extrema' = extrema

\* lines 105, 189-192
OutliersThreshold ==
    /\ pc = "outliers"
    /\ extrema' = outliers_min_diff(cleaned, extrema, threshold)
    /\ pc' = "alternation"
    /\ UNCHANGED <<rsp_cleaned, method, outlier_threshold, cleaned, threshold,
                   amplitudes, info, signals, err, biovars>>

\* lines 194-204
OutliersAlternation ==
    /\ pc = "alternation"
    /\ LET r == outliers_alternation(cleaned, extrema)
       IN extrema' = r.extrema /\ amplitudes' = r.amplitudes
    /\ pc' = "sanitize"
    /\ UNCHANGED <<rsp_cleaned, method, outlier_threshold, cleaned, threshold,
                   info, signals, err, biovars>>

\* lines 107-111
Sanitize ==
    /\ pc = "sanitize"
    /\ UNCHANGED <<rsp_cleaned, method, outlier_threshold, cleaned, threshold,
                   extrema, amplitudes, signals, biovars>>
    /\ LET r == rsp_findpeaks_sanitize(extrema, amplitudes)
       IN IF r.ok
          THEN /\ info' = [RSP_Peaks |-> r.peaks, RSP_Troughs |-> r.troughs]
               /\ pc' = "signals" /\ err' = err
          ELSE Raise(r.err) /\ info' = info

\* line 82
SignalsFromPeakinfo ==
    /\ pc = "signals"
    /\ signals' = signals_from_peakinfo(info, Len(cleaned))
    /\ pc' = "phase"
    /\ UNCHANGED <<rsp_cleaned, method, outlier_threshold, cleaned, threshold,
                   extrema, amplitudes, info, err, biovars>>

\* lines 85-87
Phase ==
    /\ pc = "phase"
    /\ UNCHANGED <<rsp_cleaned, method, outlier_threshold, cleaned, threshold,
                   extrema, amplitudes, info, biovars>>
    /\ LET r == rsp_findpeaks_phase(signals)
       IN IF r.ok
          THEN /\ signals' = [signals EXCEPT !.RSP_Inspiration = r.inspiration]
               /\ pc' = "done" /\ err' = err
          ELSE Raise(r.err) /\ signals' = signals

RspNext ==
    \/ Lookup
    \/ Dispatch
    \/ Extrema
    \/ OutliersThreshold
    \/ OutliersAlternation
    \/ Sanitize
    \/ SignalsFromPeakinfo
    \/ Phase

---------------------------------------------------------------------------
(* bio_process (bio_process.py lines 85-155).  A channel argument is None, *)
(* a one-dimensional vector, an array that is not one-dimensional, or (the *)
(* first argument only) a table given by its column names in order.  The   *)
(* per-channel pipelines are collaborators: each returns a table, given by *)
(* its column names, and an info mapping.                                  *)

Channels == <<"ECG", "RSP", "EDA", "EMG">>

None == [kind |-> "none", cols |-> <<>>]
Vector == [kind |-> "vector", cols |-> <<>>]
Matrix == [kind |-> "matrix", cols |-> <<>>]
DataFrame(c) == [kind |-> "table", cols |-> c]

ColumnNames == {"ECG", "EKG", "RSP", "EDA", "EMG", "Photosensor"}

\* column lists without repetition, of at most n columns
ColumnLists(n) ==
    {c \in UNION {[1..k -> ColumnNames] : k \in 0..n} :
        \A i, j \in 1..Len(c) : i # j => c[i] # c[j]}

InfoKeys == {"Peaks", "Onsets"}
InfoValues == {1, 2}
Infos == UNION {[D -> InfoValues] : D \in SUBSET InfoKeys}

\* the columns of the table each collaborator pipeline returns
ProcessColumns(ch) ==
    CASE ch = "ECG" -> <<"ECG_Raw", "ECG_Clean">>
      [] ch = "RSP" -> <<"RSP_Raw", "RSP_Clean">>
      [] ch = "EDA" -> <<"EDA_Raw", "EDA_Clean">>
      [] ch = "EMG" -> <<"EMG_Raw", "EMG_Clean">>

\* what ecg_process / rsp_process / eda_process / emg_process may return
ProcessResults(ch) == {[done |-> TRUE, signals |-> ProcessColumns(ch), info |-> i] : i \in Infos}

NoOut == [done |-> FALSE, signals |-> <<>>, info |-> <<>>]

\* sanitize_input(x, message): fails unless x is vector-shaped
sanitize_input(x) == IF x.kind = "vector" THEN [ok |-> TRUE, err |-> "none"]
                     ELSE [ok |-> FALSE, err |-> "ValueError"]

\* faulty variant of update: a key already present keeps its value
update_keep_first(a, b) ==
    [k \in (DOMAIN a) \cup (DOMAIN b) |-> IF k \in DOMAIN a THEN a[k] ELSE b[k]]

\* dict.update: bio_info.update(x_info)
update(a, b) ==
    [k \in (DOMAIN a) \cup (DOMAIN b) |-> IF k \in DOMAIN b THEN b[k] ELSE a[k]]

\* pd.concat([bio_df, x], axis=1), as the resulting column order
concat(a, b) == a \o b

\* data[name] when name is a column of data, else None (lines 92-103)
ColumnOrNone(data, name) == IF name \in Range(data.cols) THEN Vector ELSE None

\* lines 110-115
KeepOf(data) ==
    LET cols == {"ECG", "EKG", "RSP", "EDA", "EMG"}
        keep_keys == SelectSeq(data.cols, LAMBDA key : key \notin cols)
    IN IF Len(keep_keys) # 0 THEN DataFrame(keep_keys) ELSE None

BioIdle ==
    /\ bio_pc = "idle" /\ ecg = None /\ rsp = None /\ eda = None /\ emg = None
    /\ keep = None /\ outs = [ch \in Range(Channels) |-> NoOut]
    /\ bio_df = <<>> /\ bio_info = <<>> /\ bio_err = "none"

\* the state at entry of bio_process(ecg, rsp, eda, emg, keep), after lines 85-86
BioCall ==
    /\ bio_pc = "unpack"
    /\ ecg \in {None, Vector, Matrix} \cup {DataFrame(c) : c \in ColumnLists(MaxCols)}
    /\ rsp \in {None, Vector, Matrix}
    /\ eda \in {None, Vector, Matrix}
    /\ emg \in {None, Vector, Matrix}
    /\ keep \in {None, DataFrame(<<"Photosensor">>)}
    /\ outs = [ch \in Range(Channels) |-> NoOut]
    /\ bio_df = <<>> /\ bio_info = <<>> /\ bio_err = "none"

\* lines 88-117
BioUnpack ==
    /\ bio_pc = "unpack"
    /\ bio_pc' = "ecg"
    /\ IF ecg.kind = "table"
       THEN /\ rsp' = ColumnOrNone(ecg, "RSP")
            /\ eda' = ColumnOrNone(ecg, "EDA")
            /\ emg' = ColumnOrNone(ecg, "EMG")
            /\ ecg' = IF "ECG" \in Range(ecg.cols) THEN Vector
                      ELSE ColumnOrNone(ecg, "EKG")
            /\ keep' = KeepOf(ecg)
       ELSE UNCHANGED <<ecg, rsp, eda, emg, keep>>
    /\ UNCHANGED <<outs, bio_df, bio_info, bio_err, rspvars>>

\* one `if x is not None:` block of lines 122-148
ChannelStep(ch, x, next) ==
    IF x.kind = "none"
    THEN bio_pc' = next /\ UNCHANGED <<outs, bio_df, bio_info, bio_err>>
    ELSE IF ~sanitize_input(x).ok
    THEN /\ bio_pc' = "error" /\ bio_err' = sanitize_input(x).err
         /\ UNCHANGED <<outs, bio_df, bio_info>>
    ELSE \E r \in ProcessResults(ch) :
            /\ outs' = [outs EXCEPT ![ch] = r]
            /\ bio_info' = update(bio_info, r.info)
            /\ bio_df' = concat(bio_df, r.signals)
            /\ bio_pc' = next
            /\ bio_err' = bio_err

\* lines 122-127
BioECG ==
    /\ bio_pc = "ecg"
    /\ ChannelStep("ECG", ecg, "rsp")
    /\ UNCHANGED <<ecg, rsp, eda, emg, keep, rspvars>>

\* lines 129-134
BioRSP ==
    /\ bio_pc = "rsp"
    /\ ChannelStep("RSP", rsp, "eda")
    /\ UNCHANGED <<ecg, rsp, eda, emg, keep, rspvars>>

\* lines 136-141
BioEDA ==
    /\ bio_pc = "eda"
    /\ ChannelStep("EDA", eda, "emg")
    /\ UNCHANGED <<ecg, rsp, eda, emg, keep, rspvars>>

\* lines 143-148
BioEMG ==
    /\ bio_pc = "emg"
    /\ ChannelStep("EMG", emg, "keep")
    /\ UNCHANGED <<ecg, rsp, eda, emg, keep, rspvars>>

\* lines 150-155
BioKeep ==
    /\ bio_pc = "keep"
    /\ bio_df' = IF keep.kind = "none" THEN bio_df ELSE concat(bio_df, keep.cols)
    /\ bio_pc' = "done"
    /\ UNCHANGED <<ecg, rsp, eda, emg, keep, outs, bio_info, bio_err, rspvars>>

BioNext ==
    \/ BioUnpack
    \/ BioECG
    \/ BioRSP
    \/ BioEDA
    \/ BioEMG
    \/ BioKeep

---------------------------------------------------------------------------
(* Specifications. *)

\* calls of rsp_findpeaks on every signal of at most MaxLen samples
Init ==
    /\ RspCall(ArrayInputs \cup TableInputs, MethodInputs, Thresholds)
    /\ BioIdle

Next == RspNext

Spec == Init /\ [][Next]_vars

\* calls of rsp_findpeaks on longer signals of larger amplitude
InitDeep ==
    /\ RspCall({Array(s) : s \in [1..DeepLen -> DeepAmplitudes]}, {khodadad2018}, Thresholds)
    /\ BioIdle

SpecDeep == InitDeep /\ [][Next]_vars

\* calls of bio_process
InitBio == RspIdle /\ BioCall

SpecBio == InitBio /\ [][BioNext]_vars

---------------------------------------------------------------------------
(* Properties. *)

Peaks == info.RSP_Peaks
Troughs == info.RSP_Troughs

\* the call has ended, with a result or with an exception
Returned == pc \in {"done", "error"}

\* name equals the lower-case name `canonical` up to letter case
SameIgnoringCase(name, canonical) ==
    /\ Len(name) = Len(canonical)
    /\ \A i \in 1..Len(name) : name[i] \in {canonical[i], UpperChar(canonical[i])}

\* the call is on an array and names a method that the dispatch runs
RunsDetection ==
    /\ rsp_cleaned.kind = "array"
    /\ \E n \in KhodadadNames \cup BiosppyNames : SameIgnoringCase(method, n)

\* the zero-crossings of s: i is one when samples i and i+1 have opposite strict signs
Rising(s) == {i \in 0..(Len(s) - 2) : At(s, i) < 0 /\ At(s, i + 1) > 0}
Falling(s) == {i \in 0..(Len(s) - 2) : At(s, i) > 0 /\ At(s, i + 1) < 0}
Crossings(s) == SortedSeq(Rising(s) \cup Falling(s))

SeqMax(seg) == CHOOSE v \in Range(seg) : \A w \in Range(seg) : w <= v
SeqMin(seg) == CHOOSE v \in Range(seg) : \A w \in Range(seg) : w >= v

\* C1: once rsp_findpeaks has computed info, RSP_Peaks and RSP_Troughs have the
\* same length and their sample indices strictly interleave, trough first:
\* Troughs[i] < Peaks[i], and Peaks[i] < Troughs[i+1] when Troughs[i+1] exists.
C1_Interleaved ==
    pc \in {"signals", "phase", "done"} =>
        /\ Len(Peaks) = Len(Troughs)
        /\ \A i \in 1..Len(Peaks) :
              /\ Troughs[i] < Peaks[i]
              /\ (i < Len(Troughs) => Peaks[i] < Troughs[i + 1])

\* a successful call that returns two breathing cycles
C1_Witness == pc = "done" /\ Len(Peaks) >= 2 /\ Len(Troughs) >= 2

\* C2: after a successful call the signal at each returned peak is strictly
\* above the signal at the trough before it and at the trough after it.
C2_PeakAboveTroughs ==
    pc = "done" =>
        \A i \in 1..Len(Peaks) :
            /\ i <= Len(Troughs) => At(cleaned, Peaks[i]) > At(cleaned, Troughs[i])
            /\ i < Len(Troughs) => At(cleaned, Peaks[i]) > At(cleaned, Troughs[i + 1])

\* C3: in the returned table RSP_Inspiration is undefined before the first and
\* after the last marked index; from the first to the last marked index it is
\* 1.0 from each trough up to the next peak and 0.0 from each peak up to the
\* next trough (the last peak included).
C3_PhaseBoundary ==
    pc = "done" =>
        LET insp == signals.RSP_Inspiration
            marked == Range(Peaks) \cup Range(Troughs)
            first == CHOOSE x \in marked : \A y \in marked : x <= y
            last == CHOOSE x \in marked : \A y \in marked : y <= x
        IN /\ Len(insp) = Len(cleaned)
           /\ marked # {}
           /\ \A k \in 0..(Len(insp) - 1) :
                 IF k < first \/ k > last
                 THEN At(insp, k) = "nan"
                 ELSE LET before == {x \in marked : x <= k}
                          m == CHOOSE x \in before : \A y \in before : y <= x
                      IN At(insp, k) = IF m \in Range(Troughs) THEN "1.0" ELSE "0.0"

\* a successful call with two cycles, a sample strictly between a trough and
\* its peak, a sample strictly between a peak and the next trough, and samples
\* after the last peak
C3_Witness ==
    /\ pc = "done"
    /\ Len(Peaks) >= 2
    /\ \E i \in 1..Len(Peaks) : Peaks[i] - Troughs[i] > 1
    /\ \E i \in 1..(Len(Peaks) - 1) : Troughs[i + 1] - Peaks[i] > 1
    /\ Peaks[Len(Peaks)] < Len(cleaned) - 1

\* C4: a detection run on a signal with fewer than two zero-crossings ends
\* with the domain error "insufficient oscillation", not with an IndexError.
C4_InsufficientOscillation ==
    (Returned /\ RunsDetection /\ Len(Crossings(rsp_cleaned.data)) < 2) =>
        (pc = "error" /\ err = "InsufficientOscillationError")

\* C5: when fewer than two extrema survive the outlier filter the call ends
\* with the domain error "not enough extrema", not with an IndexError.
C5_InsufficientExtrema ==
    (Returned /\ RunsDetection /\ rsp_findpeaks_extrema(cleaned).ok /\ Len(extrema) < 2) =>
        (pc = "error" /\ err = "InsufficientExtremaError")

\* C6: on a table the column is chosen as RSP_Clean, else RSP_Raw, else RSP,
\* and the lookup fails only when none of the three is present.
C6_ColumnPreference ==
    (rsp_cleaned.kind = "table" /\ pc # "lookup") =>
        LET have == DOMAIN rsp_cleaned.cols
        IN IF "RSP_Clean" \in have
              THEN err # "KeyError" /\ cleaned = rsp_cleaned.cols["RSP_Clean"]
           ELSE IF "RSP_Raw" \in have
              THEN err # "KeyError" /\ cleaned = rsp_cleaned.cols["RSP_Raw"]
           ELSE IF "RSP" \in have
              THEN err # "KeyError" /\ cleaned = rsp_cleaned.cols["RSP"]
           ELSE pc = "error" /\ err = "KeyError"

\* what C7 says of a call whose method is, up to letter case, one of `accepted`:
\* it passes the dispatch; any other method ends the call with ValueError
\* before any extrema detection, with no table and no info
DispatchAccepts(accepted) ==
    (pc \notin {"lookup", "dispatch"} /\ err # "KeyError") =>
        IF \E n \in accepted : SameIgnoringCase(method, n)
        THEN err # "ValueError"
        ELSE /\ pc = "error" /\ err = "ValueError"
             /\ extrema = <<>> /\ amplitudes = <<>>
             /\ info = NoInfo /\ signals = NoSignals

C9_ZeroThresholdKeepsAll ==
    (pc = "alternation" /\ threshold = <<0, 1>>) =>
        extrema = rsp_findpeaks_extrema(cleaned).extrema

\* C10: for a signal with at least two zero-crossings the locator records one
\* extremum per pair of consecutive crossings (beg, end), inside [beg, end):
\* the maximum of the sub-range when beg is rising and end falling, the
\* minimum when beg is falling and end rising.
C10_ExtremaPerCrossingPair ==
    (pc = "outliers" /\ Len(Crossings(cleaned)) >= 2) =>
        LET x == Crossings(cleaned)
        IN /\ Len(extrema) = Len(x) - 1
           /\ \A i \in 1..Len(extrema) :
                 LET beg == x[i]
                     end == x[i + 1]
                     seg == Slice(cleaned, beg, end)
                 IN /\ beg <= extrema[i] /\ extrema[i] < end
                    /\ (beg \in Rising(cleaned) /\ end \in Falling(cleaned))
                          => At(cleaned, extrema[i]) = SeqMax(seg)
                    /\ (beg \in Falling(cleaned) /\ end \in Rising(cleaned))
                          => At(cleaned, extrema[i]) = SeqMin(seg)

\* the channel arguments of bio_process, in processing order
ChannelArg(i) == <<ecg, rsp, eda, emg>>[i]

\* C8: bio_process merges the channels that are present in the order cardiac,
\* respiratory, electrodermal, muscular, pass-through: the merged table's
\* columns are the per-channel tables' columns in that order with the
\* pass-through columns last, the merged info holds every key of every
\* per-channel info, and a key several channels produce has the value of the
\* latest of them.
C8_MergeOrder ==
    bio_pc = "done" =>
        LET out(i) == outs[Channels[i]]
            holders(k) == {i \in 1..4 : out(i).done /\ k \in DOMAIN out(i).info}
            latest(k) == CHOOSE i \in holders(k) : \A j \in holders(k) : j <= i
        IN /\ \A i \in 1..4 : out(i).done <=> (ChannelArg(i).kind # "none")
           /\ bio_df = out(1).signals \o out(2).signals \o out(3).signals
                       \o out(4).signals \o keep.cols
           /\ DOMAIN bio_info = UNION {DOMAIN out(i).info : i \in 1..4}
           /\ \A k \in DOMAIN bio_info : bio_info[k] = out(latest(k)).info[k]

\* cardiac, respiratory and electrodermal channels with a "Photosensor"
\* pass-through, where two channels report different values under one key
C8_Witness ==
    /\ bio_pc = "done"
    /\ outs["ECG"].done /\ outs["RSP"].done /\ outs["EDA"].done
    /\ keep.kind = "table" /\ "Photosensor" \in Range(keep.cols)
    /\ \E k \in (DOMAIN outs["ECG"].info) \cap (DOMAIN outs["EDA"].info) :
          outs["ECG"].info[k] # outs["EDA"].info[k]

=============================================================================
